---- MODULE Spec2Model ----
(***************************************************************************)
(* The secure-messaging engine of react-native-ntag-424 (class Ntag424 of  *)
(* src/src/index.ts) as a state machine.                                   *)
(*                                                                         *)
(* The engine's fields are the session state.  Every public method is an   *)
(* async function: it runs synchronously up to its first transceive, is    *)
(* suspended while the APDU is in flight, and is resumed with the card's   *)
(* response.  A caller (task) is therefore at one of three places: idle,   *)
(* inflight (suspended inside sendCommand's await) or returned (sendCommand *)
(* has returned and the calling method's continuation has not run yet).    *)
(*                                                                         *)
(* Cryptography is symbolic: a ciphertext remembers the key, the IV and    *)
(* the plaintext it was made from, and decrypting under anything else      *)
(* gives garbage; a CMAC remembers its key and its message.                *)
(*                                                                         *)
(* Beside its locals a caller's record keeps what it observed of its last  *)
(* call: the session when the method was entered (pre) and when the last   *)
(* APDU was sent (atSend), the number of APDUs sent, the status word seen,  *)
(* whether the response was accepted, the error thrown.  nOk counts the    *)
(* responses accepted under the present session and cleanRun tells whether *)
(* all of them carried a success status word of the protocol; neither is   *)
(* read by any action's guard or by the engine's fields, except that a     *)
(* specification stops making calls once nOk reaches its cap.               *)
(***************************************************************************)
EXTENDS Integers, Sequences, FiniteSets, TLC

\* ---------------------------------------------------------------- bounds
MaxSlot == 1
NumKeys == 2
MaxCmds == 2
LongRun == 512
MaxLen == 33
MaxNonce == 3

\* A Buffer element is one byte: stores wrap modulo 256.
ByteMod == 256

\* The callers of the engine's methods: caller 2 makes calls in SpecTwo only.
Tasks == {1, 2}
Slots == 0..MaxSlot
\* keySlot is a number: a caller may pass one that is no key slot of the card
BadSlot == 5
\* The values a 16-byte random challenge and a 4-byte transaction identifier
\* take (0 stands for what a decryption under the wrong key gives).
Nonces == {1}
TIs == {1}
Files == {"cc", "ndef", "proprietary"}
SelectFiles == Files \cup {"master", "application"}

\* Status words the transport may hand back: 91 00, 91 AF, 91 AE, 90 00, 6A 00.
StatusWords == {<<145, 0>>, <<145, 175>>, <<145, 174>>, <<144, 0>>, <<106, 0>>}

\* File-option bytes (byte 1 of a GetFileSettings response) the card may report.
OptionBytes == {0, 1, 2, 3, 67}

VARIABLES
    isAuthenticated,        \* this.isAuthenticated
    authenticatedKeySlot,   \* this.authenticatedKeySlot   (Undefined = -1)
    sessionKeyEncryption,   \* this.sessionKeyEncryption   (Undefined = NoKey)
    sessionKeyMac,          \* this.sessionKeyMac          (Undefined = NoKey)
    transactionId,          \* this.transactionId          (Undefined = -1)
    commandCounter,         \* this.commandCounter         (Undefined = <<>>)
    task,                   \* per caller: position, locals, and what it observed
    nOk,                    \* responses accepted since the session was installed
    cleanRun                \* no response was accepted on a non-success status word

engine == <<isAuthenticated, authenticatedKeySlot, sessionKeyEncryption,
            sessionKeyMac, transactionId, commandCounter>>
vars == <<isAuthenticated, authenticatedKeySlot, sessionKeyEncryption,
          sessionKeyMac, transactionId, commandCounter, task, nOk, cleanRun>>

\* ------------------------------------------------------- symbolic crypto
\* A key is a record: an authentication key has an id and no derivation, a
\* session key has the id of the authentication key and the vector it was
\* derived from.  Bytes are carried in blocks that remember how they were
\* encrypted; Clear(bytes) is an unencrypted block.
Undefined == -1
Garbage == 0
NoKey == [id |-> 0, from |-> <<>>]
AuthKey(n) == [id |-> n, from |-> <<>>]
Keys == {AuthKey(n) : n \in 1..NumKeys}
ZeroIv == [k |-> NoKey, block |-> <<>>]
Clear(bytes) == [k |-> NoKey, iv |-> ZeroIv, pt |-> bytes]
NoData == [len |-> 0, v |-> <<>>]
Data(n, block) == [len |-> n, v |-> <<block>>]
Bytes(d) == IF d.v = <<>> THEN <<>> ELSE d.v[1].pt

\* node-aes-cmac: the 16-byte CMAC of message under key.
AesCmac(key, message) == [k |-> key, msg |-> message]
NoMac == [cmac |-> AesCmac(NoKey, <<>>), bytes |-> <<>>]

\* createCipheriv('aes-128-cbc' | 'aes-128-ecb').update(data)
AesCbcEncrypt(data, iv, key) == [k |-> key, iv |-> iv, pt |-> data]
AesEcbEncrypt(data, key) == [k |-> key, block |-> data]

\* A byte of the first block of a CBC decryption under the right key and
\* another IV: b XOR iv XOR iv', written as a value that is no byte.
Scrambled(b) == ByteMod + b

\* createDecipheriv('aes-128-cbc') without padding: the plaintext when key and
\* IV are those of the encryption; under another IV the first block differs
\* from the plaintext's; under another key as many bytes of garbage.
AesCbcDecrypt(ct, iv, key) ==
    IF ct.k = key /\ ct.iv = iv THEN ct.pt
    ELSE IF ct.k = key
    THEN [i \in DOMAIN ct.pt |-> IF i <= 16 THEN Scrambled(ct.pt[i]) ELSE ct.pt[i]]
    ELSE [i \in DOMAIN ct.pt |-> Garbage]

\* randB.subarray(1) || randB.subarray(0, 1): a whole-byte rotation, written -x
\* (all-zero garbage rotates to itself).
RotateLeft(x) == 0 - x

\* a ^ b on bytes
RECURSIVE BitXor(_, _)
BitXor(a, b) ==
    IF a = 0 THEN b ELSE IF b = 0 THEN a
    ELSE ((a + b) % 2) + 2 * BitXor(a \div 2, b \div 2)

\* The 16 bytes of a challenge: those of challenge x are 16x, 16x + 1, ..,
\* 16x + 15 (of garbage, 0 .. 15).
NonceBytes(x) == [i \in 1..16 |-> (16 * x + i - 1) % ByteMod]

\* The vector, were the tail of RandA put before the tail of RandB.
SessionVectorTailsSwapped(label, randA, randB) ==
    LET a == NonceBytes(randA)
        b == NonceBytes(randB)
    IN  label \o <<0, 1, 0, 128>> \o SubSeq(a, 1, 2)
              \o [i \in 1..6 |-> BitXor(a[i + 2], b[i])]
              \o SubSeq(a, 9, 16) \o SubSeq(b, 7, 16)

\* sessionKeyEncryption / sessionKeyMac: the CMAC, under the authentication
\* key, of sv1 / sv2, which differ in their two-byte label only:
\* label || 00 01 00 80 || last2BytesOfA || xOr || beginningOfB || beginningOfA
SessionVector(label, randA, randB) ==
    LET a == NonceBytes(randA)
        b == NonceBytes(randB)
        last2BytesOfA == SubSeq(a, 1, 2)
        xOr == [i \in 1..6 |-> BitXor(a[i + 2], b[i])]
        beginningOfA == SubSeq(a, 9, 16)
        beginningOfB == SubSeq(b, 7, 16)
    IN  label \o <<0, 1, 0, 128>> \o last2BytesOfA \o xOr \o beginningOfB
              \o beginningOfA
AsKey(cmac) == [id |-> cmac.k.id, from |-> cmac.msg]
SessionKeyEncryptionOf(randA, randB, authenticationKey) ==
    AsKey(AesCmac(authenticationKey, SessionVector(<<165, 90>>, randA, randB)))
SessionKeyMacOf(randA, randB, authenticationKey) ==
    AsKey(AesCmac(authenticationKey, SessionVector(<<90, 165>>, randA, randB)))

\* The filter, were it to keep the even indices.
TruncateMacEven(cmac) ==
    [cmac |-> cmac,
     bytes |-> SelectSeq([i \in 1..16 |-> i - 1], LAMBDA i : i % 2 = 0)]

\* mac.filter((_, i) => i % 2 === 1): bytes lists the indices, into the 16
\* bytes of the CMAC, of the bytes that are kept
TruncateMac(cmac) ==
    [cmac |-> cmac,
     bytes |-> SelectSeq([i \in 1..16 |-> i - 1], LAMBDA i : i % 2 = 1)]

\* getBits(number, start, end): mask = ((1 << (end - start + 1)) - 1) << start,
\* the result (number & mask) >> start; called with 0 <= start <= end only.
Pow2(n) == IF n = 0 THEN 1 ELSE IF n = 1 THEN 2 ELSE IF n = 2 THEN 4
           ELSE IF n = 3 THEN 8 ELSE IF n = 4 THEN 16 ELSE IF n = 5 THEN 32
           ELSE IF n = 6 THEN 64 ELSE IF n = 7 THEN 128 ELSE 256
RECURSIVE BitAnd(_, _)
BitAnd(a, b) ==
    IF a = 0 \/ b = 0 THEN 0
    ELSE ((a % 2) * (b % 2)) + 2 * BitAnd(a \div 2, b \div 2)
GetBits(number, start, end) ==
    LET mask == (Pow2(end - start + 1) - 1) * Pow2(start)
    IN  BitAnd(number, mask) \div Pow2(start)

\* ------------------------------------------------------ the command counter
\* incrementCommandCounter: byte 0 up to 0xff, from then on byte 1.
IncrementCommandCounter(cc) ==
    IF cc = <<>> THEN cc
    ELSE IF cc[1] < 255 THEN <<cc[1] + 1, cc[2]>>
    ELSE <<cc[1], (cc[2] + 1) % ByteMod>>

\* The counter as the card keeps it: a 16-bit little-endian integer.
CcValue(cc) == cc[1] + ByteMod * cc[2]
LittleEndian16(n) == <<n % ByteMod, (n \div ByteMod) % ByteMod>>
CardIncrement(cc) == IF cc = <<>> THEN cc ELSE LittleEndian16(CcValue(cc) + 1)

\* ------------------------------------------------------------- the session
Session == [auth |-> isAuthenticated, slot |-> authenticatedKeySlot,
            kenc |-> sessionKeyEncryption, kmac |-> sessionKeyMac,
            ti |-> transactionId, cc |-> commandCounter]
NoSession == [auth |-> FALSE, slot |-> Undefined, kenc |-> NoKey, kmac |-> NoKey,
              ti |-> Undefined, cc |-> <<>>]

\* The 4 bytes of a transaction identifier: those of identifier x are
\* 11x 22x 33x 44x (hexadecimal, each modulo 256).
TransactionIdBytes(x) == [i \in 1..4 |-> (17 * i * x) % ByteMod]

\* ---------------------------------------------------- building the request
\* generateMac, were the command data put before the command header.
GenerateMacDataFirst(commandCode, commandHeader, commandData) ==
    TruncateMac(AesCmac(sessionKeyMac,
        <<commandCode, commandCounter, transactionId, Bytes(commandData),
          Data(Len(commandHeader), Clear(commandHeader))>>))

\* generateMac, were it to use the counter the command will leave behind.
GenerateMacAfterIncrement(commandCode, commandHeader, commandData) ==
    TruncateMac(AesCmac(sessionKeyMac,
        <<commandCode, IncrementCommandCounter(commandCounter), transactionId,
          commandHeader, commandData>>))

\* generateMac(commandCode, commandHeader, commandData)
GenerateMac(commandCode, commandHeader, commandData) ==
    TruncateMac(AesCmac(sessionKeyMac,
        <<commandCode, commandCounter, transactionId, commandHeader, commandData>>))

\* encryptPayload: IV = E(A5 5A || TI || CC || 0^8), then 80 00.. padding, then CBC.
\* The padding length, were no block added to data that fills its last block.
PaddingLengthToBoundary(n) == (16 - (n % 16)) % 16

PaddingLength(n) == 16 - (n % 16)
ToBuffer(numbers) == [i \in DOMAIN numbers |-> numbers[i] % ByteMod]
\* commandDataWithPadding: the data, 0x80, and padding - 1 zero bytes
CommandDataWithPadding(bytes) ==
    LET padding == PaddingLength(Len(bytes))
    IN  IF padding = 1 THEN ToBuffer(bytes) \o <<128>>
        ELSE ToBuffer(bytes) \o <<128>> \o [i \in 1..(padding - 1) |-> 0]
Pad(commandData) ==
    LET padded == CommandDataWithPadding(Bytes(commandData))
    IN  [len |-> Len(padded), v |-> <<Clear(padded)>>]
EncryptPayload(commandData) ==
    LET iv == AesEcbEncrypt(<<<<165, 90>>, transactionId, commandCounter>>,
                            sessionKeyEncryption)
        padded == Pad(commandData)
    IN  Data(padded.len, AesCbcEncrypt(Bytes(padded), iv, sessionKeyEncryption))

\* The payload handed to transceive in each command mode.
Payload(adpuHeader, commandHeader, body, mac, macLen, commandMode) ==
    LET length == Len(commandHeader) + body.len + macLen
    IN  [header |-> adpuHeader,
         lc |-> IF length > 0 THEN <<length>> ELSE <<>>,
         cmdHeader |-> commandHeader, data |-> body, mac |-> mac,
         le |-> <<0>>, mode |-> commandMode]
NoReq == Payload(<<>>, <<>>, NoData, NoMac, 0, "none")

BuildPayload(adpuHeader, commandHeader, commandData, commandMode) ==
    IF commandMode = "plain"
    THEN Payload(adpuHeader, commandHeader, commandData, NoMac, 0, commandMode)
    ELSE IF commandMode = "mac"
    THEN Payload(adpuHeader, commandHeader, commandData,
                 GenerateMac(adpuHeader[2], commandHeader, commandData), 8,
                 commandMode)
    ELSE LET encryptedData == EncryptPayload(commandData)
         IN  Payload(adpuHeader, commandHeader, encryptedData,
                     GenerateMac(adpuHeader[2], commandHeader, encryptedData), 8,
                     commandMode)

\* -------------------------------------------------------------- the callers
NoResp == [data |-> NoData, mac |-> NoMac, sw |-> <<>>]
IdleTask ==
    [pc |-> "idle", op |-> "none", stage |-> 0, file |-> "none",
     keySlot |-> Undefined, key |-> NoKey, oldKey |-> NoKey,
     randA |-> 0, randB |-> 0, hdr |-> <<>>, body |-> NoData,
     req |-> NoReq, ret |-> NoResp,
     \* what the caller observed of its last operation
     err |-> "none", sent |-> 0, atSend |-> NoSession, swSeen |-> <<>>,
     accepted |-> FALSE, pre |-> NoSession, mode |-> "none", args |-> <<>>]

\* A public method is entered: fresh locals, the session as it is now.
Enter(op) == [IdleTask EXCEPT !.op = op, !.pre = Session]

\* The method returns (err = "none") or throws: its locals are gone, the caller
\* keeps what it observed (of a handshake or a UID read, what it returned; of a
\* call that threw before it transmitted anything, what it was called with).
Finish(tk, err) ==
    LET handshake == err = "none" /\ tk.op \in {"authenticateEv2First",
                                                "authenticateEv2NonFirst"}
        kept == err = "none" /\ tk.op \in {"authenticateEv2First", "getCardUid"}
    IN  [IdleTask EXCEPT !.op = tk.op, !.err = err, !.sent = tk.sent,
                         !.atSend = tk.atSend, !.accepted = tk.accepted,
                         !.pre = tk.pre, !.mode = tk.mode,
                         !.file = IF tk.sent = 0 THEN tk.file ELSE "none",
                         !.args = IF tk.sent = 0 THEN tk.args ELSE <<>>,
                         !.swSeen = IF err = "StatusWord" THEN tk.swSeen ELSE <<>>,
                         !.keySlot = IF handshake THEN tk.keySlot ELSE Undefined,
                         !.key = IF handshake THEN tk.key ELSE NoKey,
                         !.randA = IF handshake THEN tk.randA ELSE 0,
                         !.randB = IF handshake THEN tk.randB ELSE 0,
                         !.ret = IF kept THEN tk.ret ELSE NoResp]

\* sendCommand without the guard of the mac and full modes.
SendCommandUnguarded(tk, stage, adpuHeader, commandHeader, commandData, commandMode) ==
    [tk EXCEPT !.pc = "inflight", !.stage = stage, !.mode = commandMode,
               !.req = BuildPayload(adpuHeader, commandHeader, commandData,
                                    commandMode),
               !.sent = @ + 1, !.atSend = Session, !.accepted = FALSE,
               !.swSeen = <<>>]

\* sendCommand up to its await: the mode's guard, the payload, transceive.
SendCommand(tk, stage, adpuHeader, commandHeader, commandData, commandMode) ==
    IF commandMode \in {"mac", "full"} /\ ~isAuthenticated
    THEN Finish([tk EXCEPT !.mode = commandMode], "NotAuthenticated")
    ELSE [tk EXCEPT !.pc = "inflight", !.stage = stage, !.mode = commandMode,
                    !.req = BuildPayload(adpuHeader, commandHeader, commandData,
                                         commandMode),
                    !.sent = @ + 1, !.atSend = Session, !.accepted = FALSE,
                    !.swSeen = <<>>]


\* --------------------------------------------------- arguments of the calls
FileArgs == SelectFiles \cup {"bogus"}
\* fileSettings of changeFileSettings: every length up to MaxLen, all bytes 00,
\* all 80 or all AB
SettingsArgs == {[i \in 1..n |-> b] : n \in 0..MaxLen, b \in {0, 128, 171}}
\* (file, offset, length) of a read; (file, data length, offset) of a write
ReadArgs == {<<"ndef", 0, 16>>, <<"cc", 256, 0>>, <<"proprietary", 0, 256>>,
             <<"bogus", 0, 0>>}
WriteArgs == {<<"cc", 4, 0>>, <<"proprietary", 8, 16>>, <<"ndef", 240, 10>>,
              <<"ndef", 249, 0>>, <<"cc", 30, 3>>}
KeyVersions == {0, 255}

FileNo(file) == IF file = "cc" THEN 1 ELSE IF file = "ndef" THEN 2 ELSE 3
FileSize(file) == IF file = "cc" THEN 32 ELSE IF file = "ndef" THEN 256 ELSE 128
\* the size writeData pads the data to
FillSize(file) == IF file = "cc" THEN 32 ELSE IF file = "ndef" THEN 248 ELSE 128
SelectData(file) ==
    Data(2, Clear(IF file = "master" THEN <<63, 0>>
                  ELSE IF file = "application" THEN <<225, 16>>
                  ELSE IF file = "cc" THEN <<225, 3>>
                  ELSE IF file = "ndef" THEN <<225, 4>>
                  ELSE <<225, 5>>))
\* a 16-byte key: the key's id in every byte
KeyBytes(key) == [i \in 1..16 |-> key.id]

\* The checks of the file alone, without those of offset and length.
ArgumentErrorOfFile(op, file, args) ==
    CASE op = "selectFile" ->
           IF file \notin SelectFiles THEN "InvalidArgument" ELSE "none"
      [] op \in {"getFileSettings", "changeFileSettings", "readData", "writeData"} ->
           IF file \notin Files THEN "InvalidArgument" ELSE "none"
      [] OTHER -> "none"

\* The checks a method makes of its arguments before it sends anything: the
\* error it throws, or "none".  args is (offset, length) of readData and
\* (data length, offset) of writeData.
ArgumentError(op, file, args) ==
    CASE op = "selectFile" ->
           IF file \notin SelectFiles THEN "InvalidArgument" ELSE "none"
      [] op \in {"getFileSettings", "changeFileSettings"} ->
           IF file \notin Files THEN "InvalidArgument" ELSE "none"
      [] op = "readData" ->
           IF args[1] > 255 \/ args[2] > 255 \/ file \notin Files
           THEN "InvalidArgument" ELSE "none"
      [] op = "writeData" ->
           LET payloadLength == args[2] + args[1]
           IN  IF args[1] > 248 \/ file \notin Files
                  \/ payloadLength > FileSize(file)
               THEN "InvalidArgument"
               ELSE IF FillSize(file) - payloadLength < 0   \* Buffer.alloc(< 0)
               THEN "RangeError" ELSE "none"
      [] OTHER -> "none"

\* ---------------------------------------------------------------- stepping
Idle(t, cap) == task[t].pc = "idle" /\ nOk < cap
Returned(t, op) == task[t].pc = "returned" /\ task[t].op = op

\* a step of caller t that leaves the engine's fields alone
Step(t, tk) ==
    /\ task' = [task EXCEPT ![t] = tk]
    /\ UNCHANGED <<isAuthenticated, authenticatedKeySlot, sessionKeyEncryption,
                   sessionKeyMac, transactionId, commandCounter, nOk, cleanRun>>

\* ------------------------------------------------- the NFC technology request
\* initialize and terminate await one call of the NFC manager, which resolves
\* or rejects (err); neither reads or assigns a field of the engine.
Initialize(t, err, cap) ==
    /\ Idle(t, cap)
    /\ Step(t, Finish(Enter("initialize"), err))

Terminate(t, err, cap) ==
    /\ Idle(t, cap)
    /\ Step(t, Finish(Enter("terminate"), err))

\* ------------------------------------------------------- the command catalog
SelectFile(t, file, cap) ==
    /\ Idle(t, cap)
    /\ LET tk == [Enter("selectFile") EXCEPT !.file = file]
       IN  IF ArgumentError("selectFile", file, <<>>) # "none"
           THEN Step(t, Finish(tk, ArgumentError("selectFile", file, <<>>)))
           ELSE IF file \in Files
           THEN Step(t, SendCommand(tk, 1, <<0, 164, 0, 12>>, <<>>,
                                    SelectData("application"), "plain"))
           ELSE Step(t, SendCommand(tk, 2, <<0, 164, 0, 12>>, <<>>,
                                    SelectData(file), "plain"))

SelectFileContinue(t) ==
    /\ Returned(t, "selectFile")
    /\ IF task[t].stage = 1
       THEN Step(t, SendCommand(task[t], 2, <<0, 164, 0, 12>>, <<>>,
                                SelectData(task[t].file), "plain"))
       ELSE Step(t, Finish(task[t], "none"))

GetCardUid(t, cap) ==
    /\ Idle(t, cap)
    /\ Step(t, SendCommand(Enter("getCardUid"), 1, <<144, 81, 0, 0>>, <<>>,
                           NoData, "mac"))

GetFileSettings(t, file, cap) ==
    /\ Idle(t, cap)
    /\ LET tk == [Enter("getFileSettings") EXCEPT !.file = file]
       IN  IF ArgumentError("getFileSettings", file, <<>>) # "none"
           THEN Step(t, Finish(tk, ArgumentError("getFileSettings", file, <<>>)))
           ELSE Step(t, SendCommand(tk, 1, <<144, 245, 0, 0>>, <<FileNo(file)>>,
                                    NoData, "mac"))

ChangeFileSettings(t, file, fileSettings, cap) ==
    /\ Idle(t, cap)
    /\ LET tk == [Enter("changeFileSettings") EXCEPT !.file = file,
                    !.body = Data(Len(fileSettings), Clear(fileSettings))]
       IN  IF ArgumentError("changeFileSettings", file, <<>>) # "none"
           THEN Step(t, Finish(tk, ArgumentError("changeFileSettings", file, <<>>)))
           ELSE Step(t, SendCommand(tk, 1, <<144, 95, 0, 0>>, <<FileNo(file)>>,
                                    Data(Len(fileSettings), Clear(fileSettings)),
                                    "full"))

GetKeyVersion(t, keySlot, cap) ==
    /\ Idle(t, cap)
    /\ Step(t, SendCommand([Enter("getKeyVersion") EXCEPT !.keySlot = keySlot], 1,
                           <<144, 100, 0, 0>>, <<keySlot>>, NoData, "mac"))

\* return response / return response[0]: the method's last continuation
ReturnResponse(t) ==
    /\ task[t].pc = "returned"
    /\ task[t].op \in {"getFileSettings", "changeFileSettings", "getKeyVersion"}
    /\ Step(t, Finish(task[t], "none"))

\* readData that sends its command at once, in plain mode.
ReadDataWithoutSettings(t, file, offset, length, cap) ==
    /\ Idle(t, cap)
    /\ LET tk == [Enter("readData") EXCEPT !.file = file,
                    !.args = <<offset, length>>,
                    !.hdr = <<FileNo(file), offset, 0, 0, length, 0, 0>>]
           rejected == ArgumentError("readData", file, <<offset, length>>)
       IN  IF rejected # "none"
           THEN Step(t, Finish(tk, rejected))
           ELSE Step(t, SendCommand(tk, 2, <<144, 173, 0, 0>>, tk.hdr, NoData,
                                    "plain"))

ReadData(t, file, offset, length, cap) ==
    /\ Idle(t, cap)
    /\ LET tk == [Enter("readData") EXCEPT !.file = file,
                    !.args = <<offset, length>>,
                    !.hdr = <<FileNo(file), offset, 0, 0, length, 0, 0>>]
           rejected == ArgumentError("readData", file, <<offset, length>>)
       IN  IF rejected # "none"
           THEN Step(t, Finish(tk, rejected))
           ELSE Step(t, SendCommand(tk, 1, <<144, 245, 0, 0>>, <<FileNo(file)>>,
                                    NoData, "mac"))

\* Buffer.concat([data, Buffer.alloc(z)]): n data bytes (0xAA here), z zeros
WriteBody(n, z) == Data(n + z, Clear([i \in 1..(n + z) |-> IF i <= n THEN 170 ELSE 0]))

WriteData(t, file, dataLength, offset, cap) ==
    /\ Idle(t, cap)
    /\ LET payloadLength == offset + dataLength
           fill == FillSize(file) - payloadLength
           commandData == IF fill < 0 THEN NoData ELSE WriteBody(dataLength, fill)
           tk == [Enter("writeData") EXCEPT !.file = file, !.body = commandData,
                    !.args = <<dataLength, offset>>,
                    !.hdr = <<FileNo(file), offset, 0, 0, commandData.len, 0, 0>>]
           rejected == ArgumentError("writeData", file, <<dataLength, offset>>)
       IN  IF rejected # "none"
           THEN Step(t, Finish(tk, rejected))
           ELSE Step(t, SendCommand(tk, 1, <<144, 245, 0, 0>>, <<FileNo(file)>>,
                                    NoData, "mac"))

\* The mode, were the whole option byte compared.
CommandModeOfByte(fileSettings) ==
    IF fileSettings[2] = 3 THEN "full"
    ELSE IF fileSettings[2] = 1 THEN "mac" ELSE "plain"

\* the command mode the file settings select
CommandModeOf(fileSettings) ==
    LET commandModeBits == GetBits(fileSettings[2], 0, 1)
    IN  IF commandModeBits = 3 THEN "full"
        ELSE IF commandModeBits = 1 THEN "mac" ELSE "plain"

ReadWriteContinue(t) ==
    /\ task[t].pc = "returned"
    /\ task[t].op \in {"readData", "writeData"}
    /\ IF task[t].stage = 1
       THEN Step(t, SendCommand(task[t], 2,
                    IF task[t].op = "readData" THEN <<144, 173, 0, 0>>
                    ELSE <<144, 141, 0, 0>>,
                    task[t].hdr, task[t].body,
                    CommandModeOf(Bytes(task[t].ret.data))))
       ELSE Step(t, Finish(task[t], "none"))

ChangeMasterKey(t, newKey, cap) ==
    /\ Idle(t, cap)
    /\ Step(t, SendCommand([Enter("changeMasterKey") EXCEPT !.key = newKey,
                              !.keySlot = 0], 1,
                           <<144, 100, 0, 0>>, <<0>>, NoData, "mac"))

ChangeApplicationKey(t, keySlot, oldKey, newKey, cap) ==
    /\ Idle(t, cap)
    /\ Step(t, SendCommand([Enter("changeApplicationKey") EXCEPT !.key = newKey,
                              !.oldKey = oldKey, !.keySlot = keySlot], 1,
                           <<144, 100, 0, 0>>, <<keySlot>>, NoData, "mac"))


\* ------------------------------------------------------------------ crc32
\* A 32-bit value is four bytes, least significant first.
Xor32(a, b) == [i \in 1..4 |-> BitXor(a[i], b[i])]
\* c >>> 1 and c >>> 8
ShiftRight1(c) ==
    [i \in 1..4 |-> (c[i] \div 2) + (IF i < 4 THEN (c[i + 1] % 2) * 128 ELSE 0)]
ShiftRight8(c) == <<c[2], c[3], c[4], 0>>
\* c ^ -1, and ~byte on a byte
Complement32(c) == [i \in 1..4 |-> 255 - c[i]]

\* crcTable[n]: eight rounds of c & 1 ? 0xedb88320 ^ (c >>> 1) : c >>> 1
RECURSIVE CrcTableEntry(_, _)
CrcTableEntry(c, k) ==
    IF k = 0 THEN c
    ELSE CrcTableEntry(IF c[1] % 2 = 1 THEN Xor32(<<32, 131, 184, 237>>, ShiftRight1(c))
                       ELSE ShiftRight1(c),
                       k - 1)

CrcTable == [n \in 0..255 |-> CrcTableEntry(<<n, 0, 0, 0>>, 8)]

\* crc = (crc >>> 8) ^ crcTable[(crc ^ data[i]) & 0xff]
RECURSIVE CrcFold(_, _, _)
CrcFold(crc, data, i) ==
    IF i > Len(data) THEN crc
    ELSE CrcFold(Xor32(ShiftRight8(crc), CrcTable[BitXor(crc[1], data[i])]),
                 data, i + 1)

\* crc32, were its bytes not complemented: the standard CRC, little-endian.
Crc32Standard(data) ==
    Complement32(CrcFold(<<255, 255, 255, 255>>, data, 1))

\* crc32, were it written most significant byte first.
Crc32BigEndian(data) ==
    LET crc == CrcFold(<<255, 255, 255, 255>>, data, 1)
    IN  <<crc[4], crc[3], crc[2], crc[1]>>

\* crc32: the CRC, xored with -1, written little-endian, every byte complemented
Crc32(data) ==
    Complement32(Complement32(CrcFold(<<255, 255, 255, 255>>, data, 1)))

\* ----------------------------------------------------------- changing keys
\* The command data, were the key version put after the CRC and the master
\* key's version not raised.
ChangeKeyDataVersionLast(tk, currentKeyVersion) ==
    IF tk.op = "changeMasterKey"
    THEN Data(17, Clear(KeyBytes(tk.key) \o <<currentKeyVersion>>))
    ELSE Data(21, Clear([i \in 1..16 |-> BitXor(tk.oldKey.id, tk.key.id)]
                        \o Crc32(KeyBytes(tk.key)) \o <<currentKeyVersion>>))

ChangeKeyData(tk, currentKeyVersion) ==
    IF tk.op = "changeMasterKey"
    THEN Data(17, Clear(KeyBytes(tk.key) \o <<currentKeyVersion + 1>>))
    ELSE Data(21, Clear([i \in 1..16 |-> BitXor(tk.oldKey.id, tk.key.id)]
                        \o <<currentKeyVersion>> \o Crc32(KeyBytes(tk.key))))

\* The continuation, were the session re-keyed with the key just written.
ChangeKeyContinueRekeying(t) ==
    /\ task[t].pc = "returned"
    /\ task[t].op \in {"changeMasterKey", "changeApplicationKey"}
    /\ IF task[t].stage = 1
       THEN Step(t, SendCommand(task[t], 2, <<144, 196, 0, 0>>,
                                <<task[t].keySlot>>,
                                ChangeKeyData(task[t], Bytes(task[t].ret.data)[1]),
                                "full"))
       ELSE /\ sessionKeyEncryption' = task[t].key
            /\ sessionKeyMac' = task[t].key
            /\ UNCHANGED <<isAuthenticated, authenticatedKeySlot, transactionId,
                           commandCounter, nOk, cleanRun>>
            /\ task' = [task EXCEPT ![t] = Finish(task[t], "none")]

ChangeKeyContinue(t) ==
    /\ task[t].pc = "returned"
    /\ task[t].op \in {"changeMasterKey", "changeApplicationKey"}
    /\ IF task[t].stage = 1
       THEN Step(t, SendCommand(task[t], 2, <<144, 196, 0, 0>>,
                                <<task[t].keySlot>>,
                                ChangeKeyData(task[t], Bytes(task[t].ret.data)[1]),
                                "full"))
       ELSE Step(t, Finish(task[t], "none"))

\* --------------------------------------------------------- unwrapping
\* verifyMac: the truncated CMAC of SW2 || CC || TI || data must be the MAC
VerifyMac(response, cc) ==
    response.mac = TruncateMac(AesCmac(sessionKeyMac,
                       <<response.sw[2], cc, transactionId, response.data>>))

\* decryptPayload, were its IV the one of encryptPayload.
DecryptPayloadRequestIv(response, cc) ==
    LET decryptionIv == AesEcbEncrypt(<<<<165, 90>>, transactionId, cc>>,
                                      sessionKeyEncryption)
    IN  [response EXCEPT !.data =
            IF @.len = 0 THEN @
            ELSE Data(@.len, Clear(AesCbcDecrypt(@.v[1], decryptionIv,
                                                 sessionKeyEncryption)))]

\* decryptPayload: IV = E(5A A5 || TI || CC || 0^8), then CBC
DecryptPayload(response, cc) ==
    LET decryptionIv == AesEcbEncrypt(<<<<90, 165>>, transactionId, cc>>,
                                      sessionKeyEncryption)
    IN  [response EXCEPT !.data =
            IF @.len = 0 THEN @
            ELSE Data(@.len, Clear(AesCbcDecrypt(@.v[1], decryptionIv,
                                                 sessionKeyEncryption)))]

GetCardUidContinue(t) ==
    /\ Returned(t, "getCardUid")
    /\ Step(t, Finish([task[t] EXCEPT
                         !.ret = DecryptPayload(task[t].ret, commandCounter)],
                      "none"))

\* ------------------------------------------------------------ the card
\* What a card that shares the session of the request answers with: its
\* counter is the request's plus one (16 bit), its MAC and encryption use it.
CardMac(sess, sw, data) ==
    TruncateMac(AesCmac(sess.kmac, <<sw[2], CardIncrement(sess.cc), sess.ti, data>>))
CardEncrypt(sess, bytes) ==
    Data(16, AesCbcEncrypt(bytes,
                 AesEcbEncrypt(<<<<90, 165>>, sess.ti, CardIncrement(sess.cc)>>,
                               sess.kenc),
                 sess.kenc))

ResponseData(tk) ==
    CASE tk.op \in {"authenticateEv2First", "authenticateEv2NonFirst"} /\ tk.stage = 1 ->
           {Data(16, AesCbcEncrypt(<<rb>>, ZeroIv, kc)) : rb \in Nonces, kc \in Keys}
      [] tk.op = "authenticateEv2First" /\ tk.stage = 2 ->
           {Data(32, AesCbcEncrypt(<<ti, RotateLeft(tk.randA)>>, ZeroIv, kc)) :
                ti \in TIs, kc \in Keys}
      [] tk.op = "authenticateEv2NonFirst" /\ tk.stage = 2 ->
           {Data(16, AesCbcEncrypt(<<RotateLeft(tk.randA)>>, ZeroIv, kc)) : kc \in Keys}
      [] \/ tk.op = "getKeyVersion"
         \/ tk.op \in {"changeMasterKey", "changeApplicationKey"} /\ tk.stage = 1 ->
           {Data(1, Clear(<<v>>)) : v \in KeyVersions}
      [] \/ tk.op = "getFileSettings"
         \/ tk.op \in {"readData", "writeData"} /\ tk.stage = 1 ->
           {Data(2, Clear(<<0, b>>)) : b \in OptionBytes}
      [] tk.op = "getCardUid" -> {CardEncrypt(tk.atSend, <<4>>)}
      [] tk.op = "readData" /\ tk.stage = 2 ->
           IF tk.req.mode = "full" THEN {NoData, CardEncrypt(tk.atSend, <<7>>)}
           ELSE {Data(1, Clear(<<7>>))}
      [] OTHER -> {NoData}

\* the MAC of the response: the card's over the bytes on the wire, the card's
\* over the decrypted bytes, or none that verifies
ResponseMacs(tk, sw, d) ==
    IF tk.req.mode = "plain" THEN {NoMac}
    ELSE {NoMac, CardMac(tk.atSend, sw, d)}
         \cup (IF d.len > 0 /\ d.v[1].k # NoKey
               THEN {CardMac(tk.atSend, sw, Data(d.len, Clear(d.v[1].pt)))}
               ELSE {})

\* sendCommand's check of the response: its last byte, 00 or (plain mode) AF
StatusAccepted(sw, commandMode) ==
    IF commandMode = "plain" THEN sw[2] = 0 \/ sw[2] = 175 ELSE sw[2] = 0

\* Of a response whose status word is refused nothing else is looked at: one
\* without data stands for all of them.
Responses(tk) ==
    UNION {IF StatusAccepted(sw, tk.req.mode)
           THEN UNION {{[data |-> d, mac |-> m, sw |-> sw] :
                           m \in ResponseMacs(tk, sw, d)} : d \in ResponseData(tk)}
           ELSE {[data |-> NoData, mac |-> NoMac, sw |-> sw]} :
           sw \in StatusWords}

\* The status words the protocol counts as success in a command mode: 91 00,
\* and 91 AF in plain mode.
StatusOk(sw, mode) == sw = <<145, 0>> \/ (mode = "plain" /\ sw = <<145, 175>>)

\* --------------------------------------------- sendCommand after its await
TransceiveResolveWith(t, responses) ==
    /\ task[t].pc = "inflight"
    /\ \E response \in responses :
         LET tk == [task[t] EXCEPT !.swSeen = response.sw]
             mode == tk.req.mode
             accepted == StatusAccepted(response.sw, mode)
             cc == IncrementCommandCounter(commandCounter)
             unwrapped == IF mode = "full" THEN DecryptPayload(response, cc)
                          ELSE response
         IN  IF ~accepted
             THEN Step(t, Finish(tk, "StatusWord"))
             ELSE /\ commandCounter' = cc
                  /\ nOk' = IF commandCounter = <<>> THEN nOk ELSE nOk + 1
                  /\ cleanRun' = (cleanRun /\ StatusOk(response.sw, mode))
                  /\ UNCHANGED <<isAuthenticated, authenticatedKeySlot,
                                 sessionKeyEncryption, sessionKeyMac, transactionId>>
                  /\ task' = [task EXCEPT ![t] =
                        IF mode # "plain" /\ ~VerifyMac(unwrapped, cc)
                        THEN Finish([tk EXCEPT !.accepted = TRUE], "MacMismatch")
                        ELSE [tk EXCEPT !.pc = "returned", !.accepted = TRUE,
                                        !.ret = unwrapped]]

TransceiveResolve(t) == TransceiveResolveWith(t, Responses(task[t]))

\* The card answers the GetFileSettings of a readData or writeData with 91 00,
\* its MAC, and any value 00..FF of the file-option byte.
SettingsResponses(tk) ==
    {[data |-> Data(2, Clear(<<0, b>>)),
      mac |-> CardMac(tk.atSend, <<145, 0>>, Data(2, Clear(<<0, b>>))),
      sw |-> <<145, 0>>] : b \in 0..(ByteMod - 1)}

SettingsResolve(t) ==
    /\ task[t].op \in {"readData", "writeData"} /\ task[t].stage = 1
    /\ TransceiveResolveWith(t, SettingsResponses(task[t]))

\* transceive rejects: the error propagates to the caller
TransceiveReject(t) ==
    /\ task[t].pc = "inflight"
    /\ Step(t, Finish(task[t], "Transport"))

\* ----------------------------------------------------------- authentication
AuthenticateEv2First(t, keySlot, key, cap) ==
    /\ Idle(t, cap)
    /\ Step(t, SendCommand([Enter("authenticateEv2First") EXCEPT
                              !.keySlot = keySlot, !.key = key], 1,
                           <<144, 113, 0, 0>>, <<keySlot, 3, 0, 0, 0>>, NoData,
                           "plain"))

\* randBRotatedLeft: randB.subarray(1) || randB.subarray(0, 1)
RotateLeftBytes(bytes) == SubSeq(bytes, 2, Len(bytes)) \o SubSeq(bytes, 1, 1)

\* randB, randA and the second APDU
PartTwoCommand(tk, randA, stage) ==
    LET randB == AesCbcDecrypt(tk.ret.data.v[1], ZeroIv, tk.key)[1]
        encrypted == AesCbcEncrypt(NonceBytes(randA)
                                     \o RotateLeftBytes(NonceBytes(randB)),
                                   ZeroIv, tk.key)
    IN  SendCommand([tk EXCEPT !.randA = randA, !.randB = randB], stage,
                    <<144, 175, 0, 0>>, <<>>, Data(32, encrypted), "plain")

\* The six assignments without the one to the command counter.
InstallSessionKeepingCounter(tk, partTwo) ==
    [auth |-> TRUE, slot |-> tk.keySlot, ti |-> partTwo[1],
     cc |-> commandCounter,
     kenc |-> SessionKeyEncryptionOf(tk.randA, tk.randB, tk.key),
     kmac |-> SessionKeyMacOf(tk.randA, tk.randB, tk.key)]

\* The six assignments without the one to the transaction identifier.
InstallSessionWithoutTi(tk, partTwo) ==
    [auth |-> TRUE, slot |-> tk.keySlot, ti |-> transactionId, cc |-> <<0, 0>>,
     kenc |-> SessionKeyEncryptionOf(tk.randA, tk.randB, tk.key),
     kmac |-> SessionKeyMacOf(tk.randA, tk.randB, tk.key)]

\* The six assignments that end authenticateEv2First: partTwo.subarray(0, 4) is
\* the first element of the decrypted response.
InstallSession(tk, partTwo) ==
    [auth |-> TRUE, slot |-> tk.keySlot, ti |-> partTwo[1], cc |-> <<0, 0>>,
     kenc |-> SessionKeyEncryptionOf(tk.randA, tk.randB, tk.key),
     kmac |-> SessionKeyMacOf(tk.randA, tk.randB, tk.key)]

AuthenticateEv2FirstContinueWith(t, nonces) ==
    /\ Returned(t, "authenticateEv2First")
    /\ IF task[t].stage = 1
       THEN \E randA \in nonces : Step(t, PartTwoCommand(task[t], randA, 2))
       ELSE LET tk == task[t]
                partTwo == AesCbcDecrypt(tk.ret.data.v[1], ZeroIv, tk.key)
                installed == InstallSession(tk, partTwo)
            IN  /\ isAuthenticated' = installed.auth
                /\ authenticatedKeySlot' = installed.slot
                /\ transactionId' = installed.ti
                /\ commandCounter' = installed.cc
                /\ sessionKeyEncryption' = installed.kenc
                /\ sessionKeyMac' = installed.kmac
                /\ nOk' = 0
                /\ UNCHANGED cleanRun
                /\ task' = [task EXCEPT ![t] = Finish(tk, "none")]

AuthenticateEv2FirstContinue(t) == AuthenticateEv2FirstContinueWith(t, Nonces)

\* The card answers part one of authenticateEv2First with 91 AF and any of
\* MaxNonce challenges, encrypted under the key the caller uses.
ChallengeResponses(tk) ==
    {[data |-> Data(16, AesCbcEncrypt(<<rb>>, ZeroIv, tk.key)), mac |-> NoMac,
      sw |-> <<145, 175>>] : rb \in 1..MaxNonce}

ChallengeResolve(t) ==
    /\ task[t].op = "authenticateEv2First" /\ task[t].stage = 1
    /\ TransceiveResolveWith(t, ChallengeResponses(task[t]))

\* !this.authenticatedKeySlot: undefined and 0 are both falsy
AuthenticateEv2NonFirst(t, keySlot, key, cap) ==
    /\ Idle(t, cap)
    /\ LET tk == [Enter("authenticateEv2NonFirst") EXCEPT
                    !.keySlot = keySlot, !.key = key]
       IN  IF authenticatedKeySlot = Undefined \/ authenticatedKeySlot = 0
           THEN Step(t, Finish(tk, "NotAuthenticated"))
           ELSE Step(t, SendCommand(tk, 1, <<144, 119, 0, 0>>, <<keySlot>>, NoData,
                                    "plain"))

AuthenticateEv2NonFirstContinue(t) ==
    /\ Returned(t, "authenticateEv2NonFirst")
    /\ IF task[t].stage = 1
       THEN \E randA \in Nonces : Step(t, PartTwoCommand(task[t], randA, 2))
       ELSE /\ sessionKeyEncryption' =
                   SessionKeyEncryptionOf(task[t].randA, task[t].randB, task[t].key)
            /\ sessionKeyMac' =
                   SessionKeyMacOf(task[t].randA, task[t].randB, task[t].key)
            /\ UNCHANGED <<isAuthenticated, authenticatedKeySlot, transactionId,
                           commandCounter, nOk, cleanRun>>
            /\ task' = [task EXCEPT ![t] = Finish(task[t], "none")]

Init ==
    /\ isAuthenticated = FALSE
    /\ authenticatedKeySlot = Undefined
    /\ sessionKeyEncryption = NoKey
    /\ sessionKeyMac = NoKey
    /\ transactionId = Undefined
    /\ commandCounter = <<>>
    /\ task = [t \in Tasks |-> IdleTask]
    /\ nOk = 0
    /\ cleanRun = TRUE



\* ------------------------------------------------------------ specifications
Call(t, cap) ==
    \/ \E err \in {"none", "Transport"} : Initialize(t, err, cap)
    \/ \E err \in {"none", "Transport"} : Terminate(t, err, cap)
    \/ \E file \in FileArgs : SelectFile(t, file, cap)
    \/ GetCardUid(t, cap)
    \/ \E file \in Files \cup {"bogus"} : GetFileSettings(t, file, cap)
    \/ \E file \in Files \cup {"bogus"} :
          ChangeFileSettings(t, file, <<64, 224, 238>>, cap)
    \/ \E a \in ReadArgs : ReadData(t, a[1], a[2], a[3], cap)
    \/ \E a \in WriteArgs : WriteData(t, a[1], a[2], a[3], cap)
    \/ \E key \in Keys : ChangeMasterKey(t, key, cap)
    \/ \E newKey \in Keys :
          ChangeApplicationKey(t, MaxSlot, AuthKey(1), newKey, cap)
    \/ \E keySlot \in Slots : GetKeyVersion(t, keySlot, cap)
    \/ \E keySlot \in Slots, key \in Keys : AuthenticateEv2First(t, keySlot, key, cap)
    \/ \E key \in Keys : AuthenticateEv2NonFirst(t, MaxSlot, key, cap)

Resume(t) ==
    \/ TransceiveResolve(t)
    \/ TransceiveReject(t)
    \/ SelectFileContinue(t)
    \/ GetCardUidContinue(t)
    \/ ReturnResponse(t)
    \/ ReadWriteContinue(t)
    \/ ChangeKeyContinue(t)
    \/ AuthenticateEv2FirstContinue(t)
    \/ AuthenticateEv2NonFirstContinue(t)

\* One caller at a time: every call is awaited before the next is made.
Next == Call(1, MaxCmds) \/ Resume(1)
Spec == Init /\ [][Next]_vars

\* One caller that authenticates once with slot 0 and then selects the master
\* file, a plain command, for as long as the counter needs to run over.
NextLong ==
    \/ ~isAuthenticated /\ AuthenticateEv2First(1, 0, AuthKey(1), LongRun)
    \/ isAuthenticated /\ SelectFile(1, "master", LongRun)
    \/ TransceiveResolve(1)
    \/ AuthenticateEv2FirstContinue(1)
    \/ SelectFileContinue(1)
SpecLong == Init /\ [][NextLong]_vars

\* Two callers that do not await each other: a method is entered whenever its
\* caller is idle, also while the other caller's command is in flight, and the
\* transceive promises settle in any order.  The engine has no lock or queue.
\* Caller 1 authenticates with slot 0; then both read the UID and key versions.
NextTwo ==
    \/ ~isAuthenticated /\ AuthenticateEv2First(1, 0, AuthKey(1), MaxCmds)
    \/ AuthenticateEv2FirstContinue(1)
    \/ \E t \in Tasks :
          \/ isAuthenticated /\ GetCardUid(t, MaxCmds)
          \/ isAuthenticated /\ GetKeyVersion(t, 0, MaxCmds)
          \/ TransceiveResolve(t)
          \/ GetCardUidContinue(t)
          \/ ReturnResponse(t)
SpecTwo == Init /\ [][NextTwo]_vars

\* One caller that authenticates with slot 0 and then reads and writes files
\* whose option byte may be any byte.
NextModes ==
    \/ ~isAuthenticated /\ AuthenticateEv2First(1, 0, AuthKey(1), MaxCmds)
    \/ AuthenticateEv2FirstContinue(1)
    \/ isAuthenticated /\ ReadData(1, "ndef", 0, 16, MaxCmds)
    \/ isAuthenticated /\ WriteData(1, "cc", 4, 0, MaxCmds)
    \/ isAuthenticated /\ WriteData(1, "ndef", 8, 0, MaxCmds)
    \/ SettingsResolve(1)
    \/ TransceiveResolve(1)
    \/ ReadWriteContinue(1)
SpecModes == Init /\ [][NextModes]_vars

\* One caller that passes any number as the key slot, also one that is no key
\* slot of the card.
NextSlots ==
    \/ \E keySlot \in Slots \cup {BadSlot} :
          \/ AuthenticateEv2First(1, keySlot, AuthKey(1), MaxCmds)
          \/ GetKeyVersion(1, keySlot, MaxCmds)
          \/ ChangeApplicationKey(1, keySlot, AuthKey(1), AuthKey(1), MaxCmds)
    \/ TransceiveResolve(1)
    \/ TransceiveReject(1)
    \/ AuthenticateEv2FirstContinue(1)
    \/ ReturnResponse(1)
    \/ ChangeKeyContinue(1)
SpecSlots == Init /\ [][NextSlots]_vars

\* One caller that authenticates with slot 0 and then changes the settings of
\* a file to byte strings of every length up to MaxLen.
NextPad ==
    \/ ~isAuthenticated /\ AuthenticateEv2First(1, 0, AuthKey(1), MaxCmds)
    \/ AuthenticateEv2FirstContinue(1)
    \/ \E fileSettings \in SettingsArgs :
          isAuthenticated /\ ChangeFileSettings(1, "ndef", fileSettings, MaxCmds)
    \/ TransceiveResolve(1)
    \/ ReturnResponse(1)
SpecPad == Init /\ [][NextPad]_vars

\* One caller that authenticates until it succeeds, with any of MaxNonce
\* challenges of its own and of the card.
NextKeys ==
    \/ \E key \in Keys : ~isAuthenticated /\ AuthenticateEv2First(1, 0, key, MaxCmds)
    \/ ChallengeResolve(1)
    \/ AuthenticateEv2FirstContinueWith(1, 1..MaxNonce)
    \/ TransceiveResolve(1)
SpecKeys == Init /\ [][NextKeys]_vars

\* One caller that authenticates with slot 0 and changes the key of slot 1 to
\* any key of sixteen equal bytes, the sixteen zero bytes among them.
CrcKeys == {[id |-> n, from |-> <<>>] : n \in 0..(ByteMod - 1)}
NextCrc ==
    \/ ~isAuthenticated /\ AuthenticateEv2First(1, 0, AuthKey(1), MaxCmds)
    \/ AuthenticateEv2FirstContinue(1)
    \/ \E newKey \in CrcKeys :
          isAuthenticated /\ ChangeApplicationKey(1, 1, AuthKey(1), newKey, MaxCmds)
    \/ TransceiveResolve(1)
    \/ ChangeKeyContinue(1)
SpecCrc == Init /\ [][NextCrc]_vars

\* --------------------------------------------------------------- properties
SecuredOps == {"getCardUid", "getFileSettings", "changeFileSettings", "readData",
               "writeData", "changeMasterKey", "changeApplicationKey",
               "getKeyVersion"}
CatalogOps == SecuredOps \cup {"selectFile"}
Handshakes == {"authenticateEv2First", "authenticateEv2NonFirst"}

C2_FirstInstallsSession ==
    \A t \in Tasks :
        (task[t].pc = "idle" /\ task[t].op = "authenticateEv2First"
                             /\ task[t].err = "none") =>
            /\ isAuthenticated
            /\ commandCounter = <<0, 0>>
            /\ transactionId =
                   AesCbcDecrypt(task[t].ret.data.v[1], ZeroIv, task[t].key)[1]
            /\ sessionKeyEncryption =
                   AsKey(AesCmac(task[t].key,
                         SessionVector(<<165, 90>>, task[t].randA, task[t].randB)))
            /\ sessionKeyMac =
                   AsKey(AesCmac(task[t].key,
                         SessionVector(<<90, 165>>, task[t].randA, task[t].randB)))
            /\ authenticatedKeySlot = task[t].keySlot

\* a handshake succeeded that was started in a session whose counter had moved,
\* with another key than the session's
C2_Witness ==
    \E t \in Tasks :
        /\ task[t].pc = "idle" /\ task[t].op = "authenticateEv2First"
        /\ task[t].err = "none"
        /\ task[t].pre.auth /\ task[t].pre.cc # <<0, 0>>
        /\ task[t].pre.kenc.id # task[t].key.id

\* C3: a successful authenticateEv2NonFirst changes the two session keys only:
\* the transaction identifier, the counter and the authenticated slot are what
\* they were before the call.  Does not hold, also when every response was
\* accepted on a success status word: each of the handshake's two plain
\* commands increments the counter.
C3_NonFirstKeepsCounter ==
    \A t \in Tasks :
        (task[t].pc = "idle" /\ task[t].op = "authenticateEv2NonFirst"
                             /\ task[t].err = "none" /\ cleanRun) =>
            /\ transactionId = task[t].pre.ti
            /\ commandCounter = task[t].pre.cc
            /\ authenticatedKeySlot = task[t].pre.slot

\* C4: after a failed authenticateEv2First no session field is set, also when a
\* session existed before the call.  Does not hold: the earlier session stays.
C4_FailedFirstClearsSession ==
    \A t \in Tasks :
        (task[t].pc = "idle" /\ task[t].op = "authenticateEv2First"
                             /\ task[t].err # "none" /\ cleanRun) =>
            Session = NoSession

\* C5: within one sendCommand under a session the counter is incremented only
\* after the status word was found successful: the step that takes in a
\* response with another status word leaves the counter as it is.  Does not
\* hold: the check looks at the last byte of the status word only.
C5_NonSuccessKeepsCounter ==
    [][\A t \in Tasks :
          (/\ cleanRun /\ isAuthenticated
           /\ task[t].pc = "inflight" /\ task'[t].pc # "inflight"
           /\ task'[t].swSeen # <<>>
           /\ ~StatusOk(task'[t].swSeen, task[t].mode)) =>
              commandCounter' = commandCounter]_vars

\* C6: after N accepted commands since the last successful authenticateEv2First
\* the counter is N as a 16-bit little-endian integer.  Does not hold from
\* N = 256 on: FF 00 is followed by FF 01.
C6_CounterIsCount ==
    (cleanRun /\ commandCounter # <<>>) => commandCounter = LittleEndian16(nOk)

\* C7: a command accepted while the counter is FF FF ends in ProtocolDesync and
\* the session is torn down.  Does not hold: the counter becomes FF 00 and the
\* command returns.
C7_OverflowIsDesync ==
    \A t \in Tasks :
        (cleanRun /\ task[t].accepted /\ task[t].atSend.cc = <<255, 255>>) =>
            /\ task[t].err = "ProtocolDesync"
            /\ Session = NoSession

\* C8: when a mac- or full-mode command fails on its status word, the session
\* is torn down.  Does not hold: the error is thrown and every field stays.
C8_StatusWordTearsDown ==
    \A t \in Tasks :
        (task[t].pc = "idle" /\ task[t].err = "StatusWord"
                             /\ task[t].mode \in {"mac", "full"} /\ cleanRun) =>
            Session = NoSession

\* C9: when the response MAC of a mac- or full-mode command does not verify,
\* the session is torn down.  Does not hold: the error is thrown and every field
\* stays, the counter incremented.
C9_MacMismatchTearsDown ==
    \A t \in Tasks :
        (task[t].pc = "idle" /\ task[t].err = "MacMismatch" /\ cleanRun) =>
            Session = NoSession

\* C10: when transceive fails while a command sent under a session is in
\* flight, the session is cleared.  Does not hold: the rejection propagates and
\* every field stays.
C10_TransportFailureClears ==
    \A t \in Tasks :
        (task[t].pc = "idle" /\ task[t].err = "Transport"
                             /\ task[t].atSend.auth /\ cleanRun) =>
            Session = NoSession

\* C11: when terminate() has returned, the session is gone: both session keys,
\* the transaction identifier, the counter and the authenticated slot are
\* unset and the engine is unauthenticated.  Does not hold: terminate cancels
\* the technology request and assigns no field.
C11_TerminateClearsSession ==
    \A t \in Tasks :
        (task[t].pc = "idle" /\ task[t].op = "terminate"
                             /\ task[t].err = "none" /\ cleanRun) =>
            Session = NoSession

\* C12: in every state, the suspension points inside a handshake included, the
\* session fields are all set or all unset: either the engine is as constructed,
\* or it is authenticated and the slot, both session keys, the transaction
\* identifier and the counter are all set.
C12_AllOrNothing ==
    \/ Session = NoSession
    \/ /\ isAuthenticated
       /\ authenticatedKeySlot # Undefined
       /\ sessionKeyEncryption # NoKey
       /\ sessionKeyMac # NoKey
       /\ transactionId # Undefined
       /\ commandCounter # <<>>

\* a handshake is suspended in its second command while a session is installed
C12_Witness ==
    \E t \in Tasks :
        /\ task[t].pc = "inflight" /\ task[t].stage = 2
        /\ task[t].op = "authenticateEv2NonFirst"
        /\ isAuthenticated

\* C13: a response is accepted only on the status word 91 00, or 91 AF in plain
\* mode; on every other status word the command fails with a StatusWord error.
\* Does not hold: the check looks at the last byte only, so 90 00 and 6A 00 are
\* accepted in every mode and 90 AF would be in plain mode.
C13_AcceptedOnlyOnSuccess ==
    \A t \in Tasks :
        (task[t].pc = "returned" /\ task[t].accepted) =>
            StatusOk(task[t].swSeen, task[t].mode)

\* C14: calls on one engine are serialised: while one command is suspended in
\* transceive no other caller builds a request from the session, so no two
\* requests in flight at once were built from the same counter value of a
\* session.  Does not hold: sendCommand takes no lock, and a second caller's
\* request is built from the counter the first one's was built from.
C14_Serialised ==
    \A t, u \in Tasks :
        (/\ t # u /\ cleanRun
         /\ task[t].pc = "inflight" /\ task[t].atSend.auth
         /\ task[u].pc = "inflight" /\ task[u].atSend.auth) =>
            task[t].atSend.cc # task[u].atSend.cc

\* C15: authenticateEv2NonFirst is accepted exactly when a session is present:
\* called without one it throws before anything is sent; called in a session,
\* whatever slot (0 included) the session was authenticated with, it goes on to
\* the handshake and sends its first command.  Does not hold: in a session
\* authenticated with slot 0 the guard throws.
C15_NonFirstNeedsSession ==
    \A t \in Tasks :
        (task[t].op = "authenticateEv2NonFirst" /\ cleanRun) =>
            IF task[t].pre.auth
            THEN task[t].sent > 0
            ELSE /\ task[t].pc = "idle"
                 /\ task[t].err = "NotAuthenticated"
                 /\ task[t].sent = 0

\* C16: both session keys, the transaction identifier and the authenticated
\* slot change only in the step in which authenticateEv2First or
\* authenticateEv2NonFirst returns successfully; no step of a catalog command
\* (its entry, a response taken in, a continuation, its return or its failure)
\* changes any of them: a catalog command modifies the counter at most.
C16_OnlyHandshakesChangeKeys ==
    [][/\ <<sessionKeyEncryption, sessionKeyMac, transactionId,
             authenticatedKeySlot>>' #
          <<sessionKeyEncryption, sessionKeyMac, transactionId,
            authenticatedKeySlot>> =>
              \E t \in Tasks :
                  /\ task[t].op \in Handshakes /\ task[t].pc = "returned"
                  /\ task'[t].pc = "idle" /\ task'[t].err = "none"
       /\ \A t \in Tasks :
              (task'[t] # task[t] /\ task'[t].op \in CatalogOps) =>
                  UNCHANGED <<sessionKeyEncryption, sessionKeyMac, transactionId,
                              authenticatedKeySlot>>]_vars

\* a catalog command made in a session has returned or failed after it moved the
\* counter
C16_Witness ==
    \E t \in Tasks :
        /\ task[t].pc = "idle" /\ task[t].op \in CatalogOps
        /\ task[t].pre.auth /\ commandCounter # task[t].pre.cc
        /\ sessionKeyEncryption # NoKey

\* C17: readData and writeData transmit their ReadData / WriteData command only
\* as the continuation of a GetFileSettings command of the same file, sent in
\* mac mode, whose response was accepted and returned (so none is transmitted
\* when GetFileSettings fails); the request is built with the counter that
\* GetFileSettings was sent with, incremented once; and a call that returns
\* has sent two commands and incremented the counter exactly twice.
C17_SettingsBeforeReadWrite ==
    [][\A t \in Tasks :
          /\ (/\ task'[t].op \in {"readData", "writeData"}
               /\ task'[t].pc = "inflight" /\ task[t].pc # "inflight"
               /\ task'[t].req.header \in {<<144, 173, 0, 0>>, <<144, 141, 0, 0>>}) =>
                  /\ task[t].pc = "returned" /\ task[t].accepted
                  /\ task[t].op = task'[t].op /\ task[t].sent = 1
                  /\ task[t].req.header = <<144, 245, 0, 0>>
                  /\ task[t].req.cmdHeader = <<FileNo(task[t].file)>>
                  /\ task[t].req.mode = "mac"
                  /\ task'[t].atSend.cc = IncrementCommandCounter(task[t].atSend.cc)
                  /\ task'[t].req.mode # "plain" =>
                         task'[t].req.mac.cmac.msg[2] =
                             IncrementCommandCounter(task[t].atSend.cc)
          /\ (/\ task'[t].op \in {"readData", "writeData"}
               /\ task'[t].pc = "idle" /\ task[t].pc # "idle"
               /\ task'[t].err = "none") =>
                  /\ task'[t].sent = 2
                  /\ commandCounter' = IncrementCommandCounter(
                                           IncrementCommandCounter(task'[t].pre.cc))]_vars

\* a readData whose file settings selected the full mode has returned
C17_Witness ==
    \E t \in Tasks :
        /\ task[t].pc = "idle" /\ task[t].op = "readData" /\ task[t].err = "none"
        /\ task[t].mode = "full" /\ task[t].sent = 2
        /\ task[t].pre.auth

\* C18: the command mode of the ReadData / WriteData command is a function of
\* bits 0..1 of byte 1 of the GetFileSettings response alone: 0 gives plain,
\* 1 mac, 3 full and 2 plain, for every value 0..255 of that byte.
C18_ModeFromLowBits ==
    \A t \in Tasks :
        (/\ task[t].op \in {"readData", "writeData"}
         /\ task[t].pc = "inflight" /\ task[t].stage = 2) =>
            LET low == Bytes(task[t].ret.data)[2] % 4
            IN  task[t].mode = CASE low = 0 -> "plain"
                                 [] low = 1 -> "mac"
                                 [] low = 2 -> "plain"
                                 [] low = 3 -> "full"

\* the command was sent for a file whose option byte is FE: bits 0..1 are 2,
\* every bit above is set
C18_Witness ==
    \E t \in Tasks :
        /\ task[t].op = "writeData" /\ task[t].pc = "inflight" /\ task[t].stage = 2
        /\ Bytes(task[t].ret.data)[2] = 254
        /\ task[t].mode = "plain"

\* C19: a readData with an offset or a length above 255, a writeData with more
\* than 248 bytes of data or with offset + length beyond the maximum size of
\* the file (cc 32, ndef 256, proprietary 128), and any call that names an
\* unknown file, is rejected before anything is transmitted, and the session
\* (keys, transaction identifier, counter, authenticated flag, slot) is what it
\* was when the call was made.
C19_RejectedBeforeSending ==
    \A t \in Tasks :
        LET op == task[t].op
            file == task[t].file
            args == task[t].args
            outOfRange ==
                \/ op = "selectFile" /\ file \notin SelectFiles
                \/ op \in {"getFileSettings", "changeFileSettings", "readData",
                            "writeData"} /\ file \notin Files
                \/ op = "readData" /\ (args[1] > 255 \/ args[2] > 255)
                \/ op = "writeData" /\ args[1] > 248
                \/ op = "writeData" /\ file = "cc" /\ args[1] + args[2] > 32
                \/ op = "writeData" /\ file = "ndef" /\ args[1] + args[2] > 256
                \/ op = "writeData" /\ file = "proprietary"
                                    /\ args[1] + args[2] > 128
        IN  \* file is "none" once the caller has forgotten its arguments
            (file # "none" /\ outOfRange) =>
                /\ task[t].pc = "idle"
                /\ task[t].err = "InvalidArgument"
                /\ task[t].sent = 0
                /\ Session = task[t].pre

\* in a session whose counter has moved, a writeData beyond the end of the cc
\* file was rejected
C19_Witness ==
    \E t \in Tasks :
        /\ task[t].pc = "idle" /\ task[t].op = "writeData"
        /\ task[t].file = "cc" /\ task[t].args = <<30, 3>>
        /\ task[t].err = "InvalidArgument" /\ task[t].sent = 0
        /\ task[t].pre.auth /\ task[t].pre.cc # <<0, 0>>

\* C20: a key slot outside 0..4 passed to authenticateEv2First,
\* authenticateEv2NonFirst, getKeyVersion, changeMasterKey or
\* changeApplicationKey is rejected with InvalidArgument and nothing is
\* transmitted.  Does not hold: no method looks at the slot, it is put into the
\* command header and sent.
C20_BadSlotRejected ==
    \A t \in Tasks :
        (/\ task[t].op \in Handshakes \cup {"getKeyVersion", "changeMasterKey",
                                             "changeApplicationKey"}
         /\ task[t].keySlot # Undefined
         /\ task[t].keySlot \notin 0..4) =>
            /\ task[t].pc = "idle"
            /\ task[t].err = "InvalidArgument"
            /\ task[t].sent = 0

\* C21: the ChangeKey command of changeApplicationKey for a slot in 1..4 is
\* transmitted only in a session that was authenticated with slot 0.  Does not
\* hold: changeApplicationKey never looks at the authenticated slot.
C21_ChangeKeyNeedsSlotZero ==
    \A t \in Tasks :
        (/\ task[t].op = "changeApplicationKey" /\ task[t].keySlot \in 1..4
         /\ task[t].pc = "inflight" /\ task[t].req.header = <<144, 196, 0, 0>>
         /\ cleanRun) =>
            task[t].atSend.slot = 0

\* C22: selectFile of cc, ndef or proprietary transmits two plain SelectFile
\* commands, first that of the application (data E1 10), then that of the file
\* (E1 03, E1 04, E1 05), the second only after the first succeeded; selectFile
\* of master or application transmits one.  Does not hold: the file is also
\* selected after the application selection was answered 6A 00 or 90 00, which
\* the status check lets pass.
C22_SelectFileOrder ==
    [][\A t \in Tasks :
          LET fileData == [cc |-> <<225, 3>>, ndef |-> <<225, 4>>,
                           proprietary |-> <<225, 5>>, master |-> <<63, 0>>,
                           application |-> <<225, 16>>]
              old == task[t]
              new == task'[t]
          IN  /\ (new.op = "selectFile" /\ new.pc = "inflight"
                                        /\ old.pc # "inflight") =>
                     /\ new.req.mode = "plain"
                     /\ new.req.header = <<0, 164, 0, 12>>
                     /\ IF new.file \in {"cc", "ndef", "proprietary"}
                        THEN \/ /\ new.sent = 1
                                /\ Bytes(new.req.data) = <<225, 16>>
                             \/ /\ new.sent = 2
                                /\ Bytes(new.req.data) = fileData[new.file]
                                /\ old.pc = "returned"
                                /\ Bytes(old.req.data) = <<225, 16>>
                                /\ StatusOk(old.swSeen, "plain")
                        ELSE /\ new.sent = 1
                             /\ Bytes(new.req.data) = fileData[new.file]
              /\ (new.op = "selectFile" /\ new.pc = "idle" /\ old.pc = "returned") =>
                     new.sent = IF old.file \in {"cc", "ndef", "proprietary"}
                                THEN 2 ELSE 1]_vars

\* C23: the MAC and the encryption IV of a mac- or full-mode request are
\* computed with the counter as it is before the command; the MAC of the
\* response is verified, and a full-mode response and the response of
\* getCardUid are decrypted, with the counter after the command's increment.
\* (The counter before a method's first command is the one the method was
\* entered with, before its second command that one incremented once; what the
\* card encrypted with the incremented counter decrypts to what it was.)
C23_CounterBeforeAndAfter ==
    \A t \in Tasks :
        LET tk == task[t]
            before == IF tk.sent = 1 THEN tk.pre.cc
                      ELSE IncrementCommandCounter(tk.pre.cc)
            after == IncrementCommandCounter(before)
        IN  /\ (tk.pc = "inflight" /\ tk.mode \in {"mac", "full"}) =>
                   /\ tk.req.mac.cmac.msg[2] = before
                   /\ tk.mode = "full" =>
                          tk.req.data.v[1].iv.block = <<<<165, 90>>, tk.pre.ti, before>>
            /\ (tk.pc = "returned" /\ tk.mode \in {"mac", "full"}) =>
                   /\ commandCounter = after
                   /\ tk.ret.mac.cmac.msg[2] = after
                   /\ (tk.mode = "full" /\ tk.ret.data.len > 0) =>
                          Bytes(tk.ret.data) = <<7>>
            /\ (tk.pc = "idle" /\ tk.op = "getCardUid" /\ tk.err = "none") =>
                   Bytes(tk.ret.data) = <<4>>

\* a readData whose second command went out in full mode has taken in an
\* encrypted response
C23_Witness ==
    \E t \in Tasks :
        /\ task[t].pc = "returned" /\ task[t].op = "readData" /\ task[t].sent = 2
        /\ task[t].mode = "full" /\ task[t].ret.data.len > 0
        /\ task[t].pre.cc # <<0, 0>>

\* C24: for command data of every length n, what full mode encrypts is the data
\* padded: its length is the next multiple of 16 strictly above n (a whole
\* block more when n is a multiple of 16), its first n bytes are the data, the
\* byte at index n is 0x80 and every byte after it 0x00.
C24_Padding ==
    \A t \in Tasks :
        (task[t].pc = "inflight" /\ task[t].op = "changeFileSettings") =>
            LET m == Bytes(task[t].body)
                n == Len(m)
                padded == task[t].req.data.v[1].pt
            IN  /\ Len(padded) % 16 = 0
                /\ Len(padded) > n
                /\ Len(padded) = 16 * ((n \div 16) + 1)
                /\ task[t].req.data.len = Len(padded)
                /\ \A i \in 1..n : padded[i] = m[i]
                /\ padded[n + 1] = 128
                /\ \A i \in (n + 2)..Len(padded) : padded[i] = 0

\* 32 bytes of 0x80 went out as 48
C24_Witness ==
    \E t \in Tasks :
        /\ task[t].pc = "inflight" /\ task[t].op = "changeFileSettings"
        /\ Bytes(task[t].body) = [i \in 1..32 |-> 128]
        /\ task[t].req.data.len = 48

\* C25: the MAC of every mac- or full-mode request, and the MAC that a response
\* was accepted with, is the 8 bytes at the indices 1, 3, 5, 7, 9, 11, 13, 15
\* of the 16-byte CMAC, in that order.
C25_MacTruncation ==
    \A t \in Tasks :
        /\ (task[t].pc = "inflight" /\ task[t].mode \in {"mac", "full"}) =>
               /\ task[t].req.mac.bytes = <<1, 3, 5, 7, 9, 11, 13, 15>>
               /\ task[t].req.mac.cmac.k = sessionKeyMac
               /\ task[t].req.lc =
                      <<Len(task[t].req.cmdHeader) + task[t].req.data.len + 8>>
        /\ (task[t].pc = "returned" /\ task[t].mode \in {"mac", "full"}) =>
               /\ task[t].ret.mac.bytes = <<1, 3, 5, 7, 9, 11, 13, 15>>
               /\ task[t].ret.mac.cmac.k = sessionKeyMac

\* the response of a getKeyVersion was accepted with its MAC
C25_Witness ==
    \E t \in Tasks :
        /\ task[t].pc = "returned" /\ task[t].op = "getKeyVersion"
        /\ task[t].mode = "mac" /\ task[t].accepted
        /\ task[t].ret.mac # NoMac

\* C26: after a handshake with the challenges RandA and RandB and the key K the
\* session keys are the CMACs under K of SV1 and SV2, each 32 bytes:
\* label || 00 01 00 80 || RandA[0..2] || (RandA[2..8] XOR RandB[0..6]) ||
\* RandB[6..16] || RandA[8..16], with the label A5 5A for the encryption key and
\* 5A A5 for the MAC key and no other difference; nothing else enters the keys.
C26_SessionVectors ==
    \A t \in Tasks :
        (task[t].pc = "idle" /\ task[t].op = "authenticateEv2First"
                             /\ task[t].err = "none") =>
            LET a == NonceBytes(task[t].randA)
                b == NonceBytes(task[t].randB)
                rest == <<0, 1, 0, 128, a[1], a[2],
                          BitXor(a[3], b[1]), BitXor(a[4], b[2]), BitXor(a[5], b[3]),
                          BitXor(a[6], b[4]), BitXor(a[7], b[5]), BitXor(a[8], b[6]),
                          b[7], b[8], b[9], b[10], b[11], b[12], b[13], b[14],
                          b[15], b[16],
                          a[9], a[10], a[11], a[12], a[13], a[14], a[15], a[16]>>
            IN  /\ Len(rest) = 30
                /\ sessionKeyEncryption =
                       [id |-> task[t].key.id, from |-> <<165, 90>> \o rest]
                /\ sessionKeyMac =
                       [id |-> task[t].key.id, from |-> <<90, 165>> \o rest]

\* a handshake succeeded whose two challenges differ
C26_Witness ==
    \E t \in Tasks :
        /\ task[t].pc = "idle" /\ task[t].op = "authenticateEv2First"
        /\ task[t].err = "none"
        /\ task[t].randA = 3 /\ task[t].randB = 2
        /\ sessionKeyEncryption.from[9] = BitXor(50, 32)

\* C27 as stated: the response-side decryption (IV from 5A A5 || TI || CC) of
\* the full-mode encryption of m (IV from A5 5A || TI || CC) is pad(m).
C27_RoundTrip ==
    \A t \in Tasks :
        (task[t].pc = "inflight" /\ task[t].op = "changeFileSettings") =>
            Bytes(DecryptPayload([data |-> task[t].req.data, mac |-> NoMac,
                                  sw |-> <<145, 0>>], commandCounter).data)
                = CommandDataWithPadding(Bytes(task[t].body))

\* C27, amended: the response-side decryption inverts the CBC encryption under
\* the response IV (5A A5 || TI || CC), the one the card encrypts with; the
\* full-mode encryption of m is under the request IV (A5 5A || TI || CC), and
\* its response-side decryption is pad(m) in every block but the first, which
\* differs.
C27_ResponseIvInverts ==
    \A t \in Tasks :
        (task[t].pc = "inflight" /\ task[t].op = "changeFileSettings") =>
            LET padded == CommandDataWithPadding(Bytes(task[t].body))
                responseIv == AesEcbEncrypt(<<<<90, 165>>, transactionId,
                                              commandCounter>>, sessionKeyEncryption)
                ofCard == Data(Len(padded), AesCbcEncrypt(padded, responseIv,
                                                          sessionKeyEncryption))
                opened == Bytes(DecryptPayload([data |-> ofCard, mac |-> NoMac,
                                    sw |-> <<145, 0>>], commandCounter).data)
                echoed == Bytes(DecryptPayload([data |-> task[t].req.data,
                                    mac |-> NoMac, sw |-> <<145, 0>>],
                                    commandCounter).data)
            IN  /\ opened = padded
                /\ Len(echoed) = Len(padded)
                /\ \A i \in 17..Len(padded) : echoed[i] = padded[i]
                /\ SubSeq(echoed, 1, 16) # SubSeq(padded, 1, 16)

\* a message of 17 zero bytes is in flight, encrypted in two blocks
C27_Witness ==
    \E t \in Tasks :
        /\ task[t].pc = "inflight" /\ task[t].op = "changeFileSettings"
        /\ Bytes(task[t].body) = [i \in 1..17 |-> 0]
        /\ task[t].req.mode = "full" /\ task[t].req.data.len = 32
        /\ task[t].req.data.v[1].iv.block[1] = <<165, 90>>

\* C28: every transmitted APDU is header(4) || [Lc] || body || [Le], where the
\* body is the command header, the command data and the MAC: the Lc byte is
\* there exactly when the body is not empty and is the length of the body, one
\* 00 byte Le follows (every call sets includeLe), and the plain selection of
\* the application goes out as 00 A4 00 0C 02 E1 10 00.
C28_ApduFraming ==
    \A t \in Tasks :
        task[t].pc = "inflight" =>
            LET r == task[t].req
                length == Len(r.cmdHeader) + r.data.len + Len(r.mac.bytes)
            IN  /\ Len(r.header) = 4
                /\ (r.lc # <<>>) <=> (length > 0)
                /\ r.lc # <<>> => (r.lc = <<length>> /\ length < ByteMod)
                /\ r.le = <<0>>
                /\ (task[t].op = "selectFile" /\ task[t].file = "application") =>
                       r.header \o r.lc \o r.cmdHeader \o Bytes(r.data) \o r.le
                           = <<0, 164, 0, 12, 2, 225, 16, 0>>

\* C29: a command in mac mode goes out as header || Lc || command header ||
\* command data || mac || Le with Lc = the lengths of command header and
\* command data plus 8, and the mac is the truncated CMAC under the session MAC
\* key of INS || CC || TI || command header || command data; getFileSettings of
\* ndef with TI = 11 22 33 44 and CC = 00 00 has the MAC input
\* F5 00 00 11 22 33 44 02 and goes out as 90 F5 00 00 09 02 <mac> 00, and the
\* counter is 01 00 once it has succeeded.
C29_MacModeFraming ==
    \A t \in Tasks :
        LET tk == task[t]
            r == tk.req
            m == r.mac.cmac.msg
            macInput == <<m[1]>> \o m[2] \o TransactionIdBytes(m[3]) \o m[4]
                                \o Bytes(m[5])
        IN  /\ (tk.pc = "inflight" /\ r.mode = "mac") =>
                   /\ r.lc = <<Len(r.cmdHeader) + r.data.len + 8>>
                   /\ r.le = <<0>>
                   /\ Len(r.mac.bytes) = 8
                   /\ r.mac = TruncateMac(r.mac.cmac)
                   /\ r.mac.cmac.k = tk.atSend.kmac
                   /\ macInput = <<r.header[2]>> \o tk.atSend.cc
                                     \o TransactionIdBytes(tk.atSend.ti)
                                     \o r.cmdHeader \o Bytes(r.data)
                   /\ (tk.op = "getFileSettings" /\ tk.file = "ndef"
                          /\ tk.atSend.ti = 1 /\ tk.atSend.cc = <<0, 0>>) =>
                         /\ macInput = <<245, 0, 0, 17, 34, 51, 68, 2>>
                         /\ r.header \o r.lc \o r.cmdHeader \o Bytes(r.data)
                                = <<144, 245, 0, 0, 9, 2>>
            /\ (tk.pc = "idle" /\ tk.op = "getFileSettings" /\ tk.err = "none"
                   /\ tk.sent = 1 /\ tk.atSend.cc = <<0, 0>>) =>
                   commandCounter = <<1, 0>>

\* getFileSettings of ndef, sent at the counter 00 00, has succeeded
C29_Witness ==
    \E t \in Tasks :
        /\ task[t].pc = "idle" /\ task[t].op = "getFileSettings"
        /\ task[t].err = "none" /\ task[t].sent = 1
        /\ task[t].atSend.cc = <<0, 0>> /\ task[t].atSend.ti = 1
        /\ task[t].accepted /\ commandCounter = <<1, 0>>

\* C30: changeApplicationKey sends ChangeKey (90 C4) in full mode with the
\* plaintext (oldKey XOR newKey)(16) || key version (1) || JAMCRC(newKey)(4),
\* 21 bytes padded to 32 before encryption, the key version being the byte
\* GetKeyVersion has just returned; changeMasterKey sends newKey(16) and the
\* key version plus one as a single byte (17 bytes, padded to 32).  The JAMCRC
\* of sixteen bytes 01 is 48 D7 5F AD.
C30_ChangeKeyData ==
    \A t \in Tasks :
        LET tk == task[t]
        IN  (tk.pc = "inflight" /\ tk.stage = 2
               /\ tk.op \in {"changeMasterKey", "changeApplicationKey"}) =>
                LET r == tk.req
                    pt == r.data.v[1].pt
                    version == Bytes(tk.ret.data)[1]
                    old == KeyBytes(tk.oldKey)
                    new == KeyBytes(tk.key)
                IN  /\ r.mode = "full" /\ r.header = <<144, 196, 0, 0>>
                    /\ r.cmdHeader = <<tk.keySlot>>
                    /\ r.data.v[1].k = tk.atSend.kenc
                    /\ r.data.len = 32 /\ Len(pt) = 32
                    /\ IF tk.op = "changeApplicationKey"
                       THEN /\ \A i \in 1..16 : pt[i] = BitXor(old[i], new[i])
                            /\ pt[17] = version
                            /\ SubSeq(pt, 18, 21) = Crc32(new)
                            /\ tk.key.id = 1 =>
                                  SubSeq(pt, 18, 21) = <<72, 215, 95, 173>>
                            /\ pt[22] = 128
                            /\ \A i \in 23..32 : pt[i] = 0
                       ELSE /\ SubSeq(pt, 1, 16) = new
                            /\ pt[17] = (version + 1) % ByteMod
                            /\ pt[18] = 128
                            /\ \A i \in 19..32 : pt[i] = 0

\* an application key is being changed to another key at key version 255
C30_Witness ==
    \E t \in Tasks :
        /\ task[t].pc = "inflight" /\ task[t].stage = 2
        /\ task[t].op = "changeApplicationKey"
        /\ task[t].oldKey # task[t].key
        /\ task[t].req.data.v[1].pt[17] = 255
        /\ task[t].req.data.len = 32

\* C31: writeData accepts every (file, data, offset) with at most 248 bytes of
\* data and offset + length within the file's maximum size (cc 32, ndef 256,
\* proprietary 128); what it then sends is the data followed by zero bytes
\* only, under the command header fileNo, offset, 0, 0, length of the command
\* data, 0, 0, with offset + that length within the file's maximum size.
C31_WriteDataAccepted ==
    \A t \in Tasks :
        LET tk == task[t]
            dataLength == tk.args[1]
            offset == tk.args[2]
            commandData == Bytes(tk.body)
        IN  (tk.op = "writeData" /\ tk.file \in Files /\ dataLength <= 248
               /\ offset + dataLength <= FileSize(tk.file)) =>
                /\ tk.err \notin {"InvalidArgument", "RangeError"}
                /\ tk.pc # "idle" =>
                      /\ \A i \in 1..dataLength : commandData[i] = 170
                      /\ \A i \in (dataLength + 1)..Len(commandData) :
                             commandData[i] = 0
                      /\ tk.hdr = <<FileNo(tk.file), offset, 0, 0,
                                    Len(commandData), 0, 0>>
                      /\ offset + Len(commandData) <= FileSize(tk.file)

\* C32: for every input x, crc32(x) is 4 bytes, each in 0..255: the bytewise
\* complement of the little-endian standard (IEEE 802.3) CRC-32 of x, that is
\* the CRC without its final XOR, little-endian.  The inputs are the 256 keys
\* of sixteen equal bytes; standard[n + 1] is the standard CRC-32 of sixteen
\* bytes n, as its high and low 16 bits.
C32_Crc32IsJamCrc ==
    \A t \in Tasks :
        (task[t].pc = "inflight" /\ task[t].stage = 2
           /\ task[t].op = "changeApplicationKey") =>
            LET out == SubSeq(task[t].req.data.v[1].pt, 18, 21)
                standard ==
                    <<
                      <<60603, 19285>>, <<21152, 10423>>, <<19452, 35536>>, <<62951, 59698>>,
                      <<31045, 52766>>, <<51038, 44540>>, <<56834, 3995>>, <<24601, 27769>>,
                      <<7223, 18306>>, <<41516, 9312>>, <<47984, 34311>>, <<1387, 58853>>,
                      <<35273, 49865>>, <<14290, 41259>>, <<11918, 844>>, <<37013, 24750>>,
                      <<54994, 21690>>, <<26825, 14168>>, <<29077, 38207>>, <<53134, 63197>>,
                      <<17196, 53745>>, <<64823, 45587>>, <<58475, 4212>>, <<23152, 29590>>,
                      <<9822, 22637>>, <<38981, 15247>>, <<33049, 39400>>, <<16130, 64010>>,
                      <<45984, 56614>>, <<3515, 48836>>, <<5351, 7331>>, <<43772, 32577>>,
                      <<39017, 29835>>, <<9842, 5993>>, <<16174, 46350>>, <<33077, 55020>>,
                      <<3479, 61888>>, <<45964, 37410>>, <<43728, 12357>>, <<5323, 21415>>,
                      <<26853, 30812>>, <<55038, 7102>>, <<53154, 47577>>, <<29113, 55867>>,
                      <<64795, 64791>>, <<17152, 40693>>, <<23132, 15506>>, <<58439, 24432>>,
                      <<41472, 27492>>, <<7195, 2182>>, <<1351, 43745>>, <<47964, 51459>>,
                      <<14334, 60975>>, <<35301, 36301>>, <<37049, 12202>>, <<11938, 19528>>,
                      <<21132, 26547>>, <<60567, 1105>>, <<62923, 42550>>, <<19408, 50644>>,
                      <<51058, 58104>>, <<31081, 33050>>, <<24629, 9085>>, <<56878, 16543>>,
                      <<1311, 13545>>, <<47876, 22283>>, <<41560, 62828>>, <<7235, 38542>>,
                      <<37089, 45474>>, <<12026, 53824>>, <<14246, 28711>>, <<35261, 5061>>,
                      <<62867, 14398>>, <<19336, 23516>>, <<21204, 63931>>, <<60623, 39513>>,
                      <<24685, 48501>>, <<56950, 56983>>, <<50986, 31984>>, <<31025, 7954>>,
                      <<16246, 11014>>, <<33133, 18660>>, <<38961, 60035>>, <<9770, 35169>>,
                      <<43656, 44621>>, <<5267, 52655>>, <<3535, 28616>>, <<46036, 3114>>,
                      <<53242, 10193>>, <<29153, 17459>>, <<26813, 58964>>, <<54950, 34230>>,
                      <<23044, 41626>>, <<58399, 49528>>, <<64835, 25375>>, <<17240, 253>>,
                      <<29133, 2871>>, <<53206, 26837>>, <<54922, 51890>>, <<26769, 43344>>,
                      <<58419, 36476>>, <<23080, 60830>>, <<17268, 20473>>, <<64879, 11291>>,
                      <<33089, 2016>>, <<16218, 25602>>, <<9734, 50789>>, <<38941, 42375>>,
                      <<5311, 33451>>, <<43684, 57673>>, <<46072, 17198>>, <<3555, 8396>>,
                      <<19364, 5336>>, <<62911, 30522>>, <<60643, 54621>>, <<21240, 46783>>,
                      <<56922, 37267>>, <<24641, 62065>>, <<31005, 20502>>, <<50950, 13300>>,
                      <<47912, 6159>>, <<1331, 31725>>, <<7279, 55690>>, <<41588, 47720>>,
                      <<11990, 40260>>, <<37069, 65190>>, <<35217, 23745>>, <<14218, 16163>>,
                      <<58498, 45676>>, <<23193, 53646>>, <<17349, 29673>>, <<64990, 4107>>,
                      <<29052, 14119>>, <<53095, 21701>>, <<54843, 63138>>, <<26656, 38208>>,
                      <<5134, 48827>>, <<43541, 56665>>, <<45897, 32574>>, <<3410, 7388>>,
                      <<33264, 15344>>, <<16363, 22546>>, <<9911, 64117>>, <<39084, 39319>>,
                      <<57067, 44419>>, <<24816, 52833>>, <<31148, 27654>>, <<51127, 4068>>,
                      <<19221, 10440>>, <<62734, 19242>>, <<60498, 59725>>, <<21065, 35503>>,
                      <<11879, 41300>>, <<36988, 49846>>, <<35104, 24785>>, <<14139, 819>>,
                      <<48025, 9247>>, <<1410, 18429>>, <<7390, 58778>>, <<41669, 34424>>,
                      <<36944, 36274>>, <<11851, 61008>>, <<14103, 19511>>, <<35084, 12245>>,
                      <<1454, 2297>>, <<48053, 27419>>, <<41705, 51580>>, <<7410, 43678>>,
                      <<24796, 33125>>, <<57031, 57991>>, <<51099, 16608>>, <<31104, 8962>>,
                      <<62754, 1070>>, <<19257, 26572>>, <<21093, 50603>>, <<60542, 42569>>,
                      <<43577, 37469>>, <<5154, 61887>>, <<3454, 21464>>, <<45925, 12346>>,
                      <<16327, 5910>>, <<33244, 29940>>, <<39040, 54931>>, <<9883, 46449>>,
                      <<23221, 40586>>, <<58542, 64872>>, <<65010, 24335>>, <<17385, 15597>>,
                      <<53067, 7105>>, <<29008, 30755>>, <<26636, 55876>>, <<54807, 47526>>,
                      <<3366, 52688>>, <<45885, 44594>>, <<43617, 3157>>, <<5242, 28599>>,
                      <<39128, 18587>>, <<9923, 11129>>, <<16287, 35102>>, <<33156, 60156>>,
                      <<64938, 49415>>, <<17329, 41701>>, <<23277, 130>>, <<58614, 25440>>,
                      <<26708, 17484>>, <<54863, 10158>>, <<53011, 34249>>, <<28936, 58923>>,
                      <<14159, 53823>>, <<35156, 45533>>, <<36872, 5050>>, <<11795, 28760>>,
                      <<41649, 22388>>, <<7338, 13462>>, <<1526, 38641>>, <<48109, 62739>>,
                      <<51139, 57064>>, <<31192, 48394>>, <<24708, 8045>>, <<56991, 31887>>,
                      <<21053, 23459>>, <<60454, 14401>>, <<62842, 39462>>, <<19297, 63940>>,
                      <<31220, 61966>>, <<51183, 37356>>, <<57011, 13195>>, <<24744, 20585>>,
                      <<60426, 30533>>, <<21009, 5287>>, <<19277, 46784>>, <<62806, 54562>>,
                      <<35192, 65241>>, <<14179, 40251>>, <<11839, 16220>>, <<36900, 23742>>,
                      <<7302, 31634>>, <<41629, 6256>>, <<48065, 47639>>, <<1498, 55797>>,
                      <<17309, 60897>>, <<64902, 36355>>, <<58586, 11364>>, <<23233, 20358>>,
                      <<54883, 26794>>, <<26744, 2888>>, <<28964, 43311>>, <<53055, 51917>>,
                      <<45841, 57654>>, <<3338, 33492>>, <<5206, 8371>>, <<43597, 17233>>,
                      <<9967, 25725>>, <<39156, 1951>>, <<33192, 42488>>, <<16307, 50714>>
                    >>
                crc == standard[task[t].key.id + 1]
                littleEndian == <<crc[2] % 256, crc[2] \div 256,
                                  crc[1] % 256, crc[1] \div 256>>
            IN  /\ Len(out) = 4
                /\ \A i \in 1..4 : out[i] \in 0..255
                /\ out = [i \in 1..4 |-> 255 - littleEndian[i]]

\* the key of slot 1 is being changed to sixteen bytes A7
C32_Witness ==
    \E t \in Tasks :
        /\ task[t].pc = "inflight" /\ task[t].stage = 2
        /\ task[t].op = "changeApplicationKey"
        /\ task[t].key.id = 167
        /\ Len(task[t].req.data.v[1].pt) = 32

\* C33 as stated: crc32 of sixteen zero bytes is 39 A3 24 9A.
C33_CrcOfZeros ==
    \A t \in Tasks :
        (task[t].pc = "inflight" /\ task[t].stage = 2
           /\ task[t].op = "changeApplicationKey"
           /\ KeyBytes(task[t].key) = [i \in 1..16 |-> 0]) =>
            SubSeq(task[t].req.data.v[1].pt, 18, 21) = <<57, 163, 36, 154>>

\* C33, amended: crc32 of sixteen zero bytes is AA B4 44 13, the complement of
\* 55 4B BB EC, which is the standard CRC-32 ECBB4B55 of sixteen zero bytes
\* written little-endian.
C33_CrcOfZerosIsAAB44413 ==
    \A t \in Tasks :
        (task[t].pc = "inflight" /\ task[t].stage = 2
           /\ task[t].op = "changeApplicationKey"
           /\ KeyBytes(task[t].key) = [i \in 1..16 |-> 0]) =>
            SubSeq(task[t].req.data.v[1].pt, 18, 21) = <<170, 180, 68, 19>>

\* the key of slot 1 is being changed to sixteen zero bytes
C33_Witness ==
    \E t \in Tasks :
        /\ task[t].pc = "inflight" /\ task[t].stage = 2
        /\ task[t].op = "changeApplicationKey"
        /\ KeyBytes(task[t].key) = [i \in 1..16 |-> 0]
        /\ task[t].req.data.len = 32

\* C34: in authenticateEv2First part one goes out as 90 71 00 00 05 slot 03 00
\* 00 00 00; the second APDU (90 AF 00 00, Lc = 32) is transmitted only after
\* part one returned a success status, and its body is RandA || RandB[1..16] ||
\* RandB[0], CBC-encrypted under the key with a zero IV, RandB being the CBC
\* decryption of the first 16 bytes of part one's response; the session fields
\* are assigned only after part two returned a success status.
C34_FirstInOrder ==
    \A t \in Tasks :
        LET tk == task[t]
            r == tk.req
            a == NonceBytes(tk.randA)
            b == NonceBytes(tk.randB)
        IN  tk.op = "authenticateEv2First" =>
              /\ (tk.pc = "inflight" /\ tk.stage = 1) =>
                    r.header \o r.lc \o r.cmdHeader \o Bytes(r.data) \o r.le
                        = <<144, 113, 0, 0, 5, tk.keySlot, 3, 0, 0, 0, 0>>
              /\ (tk.pc = "inflight" /\ tk.stage = 2) =>
                    /\ StatusOk(tk.ret.sw, "plain")
                    /\ r.header \o r.lc = <<144, 175, 0, 0, 32>>
                    /\ r.cmdHeader = <<>> /\ r.le = <<0>>
                    /\ tk.randB = AesCbcDecrypt(tk.ret.data.v[1], ZeroIv, tk.key)[1]
                    /\ r.data.v[1].k = tk.key /\ r.data.v[1].iv = ZeroIv
                    /\ r.data.v[1].pt = a \o SubSeq(b, 2, 16) \o <<b[1]>>
              /\ (tk.pc = "idle" /\ tk.err = "none") =>
                    StatusOk(tk.ret.sw, "plain")
              /\ (tk.pc # "idle" \/ tk.err # "none") =>
                    [Session EXCEPT !.cc = <<>>] = [tk.pre EXCEPT !.cc = <<>>]

\* C35: authentication is mutual: authenticateEv2First installs a session, and
\* authenticateEv2NonFirst rotates the session keys, only if the card's answer
\* to part two decrypts to a value that contains the caller's RandA rotated
\* left by one byte; an answer with a success status and a wrong RandA' gives
\* no authenticated session (every status word so far was 91 00 or 91 AF).
C35_MutualAuthentication ==
    [][\A t \in Tasks :
          (/\ task[t].op \in Handshakes /\ cleanRun
           /\ task[t].pc = "returned" /\ task[t].stage = 2
           /\ \/ task'[t].pc = "idle" /\ task'[t].err = "none"
              \/ <<isAuthenticated, sessionKeyEncryption, sessionKeyMac>>'
                    # <<isAuthenticated, sessionKeyEncryption, sessionKeyMac>>) =>
              LET partTwo == AesCbcDecrypt(task[t].ret.data.v[1], ZeroIv,
                                           task[t].key)
              IN  partTwo[Len(partTwo)] = RotateLeft(task[t].randA)]_vars

\* C36: under sequential use no two acknowledged commands of one session are
\* built with the same counter value, however many commands there are.  The
\* command acknowledged as the nOk-th of the session was built with the counter
\* left by nOk - 1 acknowledged commands; the counter left by m of them is
\* m 00 up to m = 255 and FF (m - 255) from then on.
C36_CounterNeverRepeats ==
    \A t \in Tasks :
        (cleanRun /\ task[t].accepted /\ task[t].atSend.cc # <<>> /\ nOk > 0) =>
            LET CounterAfter(m) == IF m <= 255 THEN <<m, 0>>
                                   ELSE <<255, (m - 255) % ByteMod>>
            IN  \A m \in 0..(nOk - 2) : CounterAfter(m) # task[t].atSend.cc

\* C37: for every operation of the catalog whose arguments pass its checks,
\* in whichever command mode the file settings select, the Lc value placed in
\* the APDU is an integer in 1..255, also for writeData to the ndef file in mac
\* and in full mode.
C37_LcFitsOneByte ==
    \A t \in Tasks :
        (task[t].pc = "inflight" /\ task[t].op \in CatalogOps) =>
            /\ Len(task[t].req.lc) = 1
            /\ task[t].req.lc[1] \in 1..255

====
